---- MODULE Spec2Model ----
(***************************************************************************)
(* A model of src/src/parser.py: the BOLSIG+ cross-section parser (parse   *)
(* and its block readers), the XMLnode tree builder/serializer and the     *)
(* conversion driver main().                                               *)
(*                                                                         *)
(* Text is modelled as sequences of one-character strings, so strip(),     *)
(* split(), the two regular expressions and float() are computed, not      *)
(* assumed.  The input stream is supplied by the environment one line at a *)
(* time (every read draws the next raw line from the pool, or finds the    *)
(* stream exhausted).                                                      *)
(***************************************************************************)
EXTENDS Integers, Sequences, FiniteSets, TLC

\* ------------------------------------------------------------------ bounds
\* the longest input stream, in lines
MaxLines == 8
\* the largest number of nodes of a tree built by the free tree builder
MaxNodes == 6

\* ------------------------------------------------------------ str methods
Whitespace == {" ", "\n", "\t"}

RECURSIVE lstrip(_)
lstrip(s) ==
  IF s # <<>> /\ Head(s) \in Whitespace THEN lstrip(Tail(s)) ELSE s

RECURSIVE rstrip(_)
rstrip(s) ==
  IF s # <<>> /\ s[Len(s)] \in Whitespace
  THEN rstrip(SubSeq(s, 1, Len(s) - 1)) ELSE s

strip(s) == rstrip(lstrip(s))

\* the first whitespace-free word of s (s has no leading whitespace)
RECURSIVE Word(_)
Word(s) ==
  IF s = <<>> \/ Head(s) \in Whitespace THEN <<>>
  ELSE <<Head(s)>> \o Word(Tail(s))

\* str.split() with no argument: the maximal whitespace-free words
RECURSIVE split(_)
split(s) ==
  LET t == lstrip(s)
      w == Word(t)
  IN IF t = <<>> THEN <<>>
     ELSE <<w>> \o split(SubSeq(t, Len(w) + 1, Len(t)))

\* s.find(sub): the 0-based index of the first occurrence of sub in s, -1 when
\* there is none
IsAt(s, sub, i) ==
  /\ i + Len(sub) <= Len(s)
  /\ \A k \in 1..Len(sub) : s[i + k] = sub[k]

find(s, sub) ==
  IF \E i \in 0..Len(s) : IsAt(s, sub, i)
  THEN CHOOSE i \in 0..Len(s) :
         IsAt(s, sub, i) /\ \A j \in 0..(i - 1) : ~IsAt(s, sub, j)
  ELSE -1

Digits == <<"0", "1", "2", "3", "4", "5", "6", "7", "8", "9">>

IsDigit(c) == \E i \in 1..10 : Digits[i] = c

DigitVal(c) == (CHOOSE i \in 1..10 : Digits[i] = c) - 1

RECURSIVE DecimalValue(_)
DecimalValue(tok) ==
  IF tok = <<>> THEN 0
  ELSE 10 * DecimalValue(SubSeq(tok, 1, Len(tok) - 1)) + DigitVal(tok[Len(tok)])

\* float(tok) on the model's alphabet: a non-empty run of decimal digits is
\* its value, anything else raises ValueError
float(tok) ==
  IF tok # <<>> /\ \A i \in 1..Len(tok) : IsDigit(tok[i])
  THEN [ok |-> TRUE, v |-> DecimalValue(tok)]
  ELSE [ok |-> FALSE, err |-> "ValueError"]

\* --------------------------------------------------------------- regexes
\* a separator pattern asking for one dash more
RE_SEP_match6(s) ==
  /\ Len(s) >= 6
  /\ \A i \in 1..6 : s[i] = "-"

\* RE_SEP.match(s): "-----+" anchored at the start of s only
RE_SEP_match(s) ==
  /\ Len(s) >= 5
  /\ \A i \in 1..5 : s[i] = "-"

\* the arrow pattern without its optional '<'
ArrowAtPlain(s, i) ==
  IF i + 1 <= Len(s) /\ s[i] = "-" /\ s[i + 1] = ">" THEN 2 ELSE 0

\* the length of the match of '<?->' starting at index i of s, 0 for none
ArrowAt(s, i) ==
  IF i + 2 <= Len(s) /\ s[i] = "<" /\ s[i + 1] = "-" /\ s[i + 2] = ">" THEN 3
  ELSE IF i + 1 <= Len(s) /\ s[i] = "-" /\ s[i + 1] = ">" THEN 2
  ELSE 0

\* RE_ARROW.split(s): the pieces of s between the leftmost non-overlapping
\* matches of '<?->'
RECURSIVE ArrowSplitFrom(_, _, _)
ArrowSplitFrom(s, start, i) ==
  IF i > Len(s) THEN <<SubSeq(s, start, Len(s))>>
  ELSE IF ArrowAt(s, i) > 0
       THEN <<SubSeq(s, start, i - 1)>>
            \o ArrowSplitFrom(s, i + ArrowAt(s, i), i + ArrowAt(s, i))
       ELSE ArrowSplitFrom(s, start, i + 1)

RE_ARROW_split(s) == ArrowSplitFrom(s, 1, 1)

\* ------------------------------------------------------------- KEYWORDS
kwMOMENTUM == <<"M", "O", "M", "E", "N", "T", "U", "M">>

kwELASTIC == <<"E", "L", "A", "S", "T", "I", "C">>

kwEFFECTIVE == <<"E", "F", "F", "E", "C", "T", "I", "V", "E">>

kwEXCITATION == <<"E", "X", "C", "I", "T", "A", "T", "I", "O", "N">>

kwIONIZATION == <<"I", "O", "N", "I", "Z", "A", "T", "I", "O", "N">>

kwATTACHMENT == <<"A", "T", "T", "A", "C", "H", "M", "E", "N", "T">>

\* the dispatch table: keyword -> block reader
KEYWORDS ==
  (kwMOMENTUM :> "_read_momentum") @@ (kwELASTIC :> "_read_momentum")
  @@ (kwEFFECTIVE :> "_read_momentum") @@ (kwEXCITATION :> "_read_excitation")
  @@ (kwIONIZATION :> "_read_excitation") @@ (kwATTACHMENT :> "_read_attachment")

\* has_arg, as each block reader passes it to _read_block
has_arg(reader) == reader # "_read_attachment"

\* --------------------------------------------------- raw lines of the input
LnAttachment == <<"A", "T", "T", "A", "C", "H", "M", "E", "N", "T", "\n">>

LnElastic == <<"E", "L", "A", "S", "T", "I", "C", "\n">>

LnExcitation == <<"E", "X", "C", "I", "T", "A", "T", "I", "O", "N", "\n">>

LnIonization == <<"I", "O", "N", "I", "Z", "A", "T", "I", "O", "N", "\n">>

LnO2 == <<"O", "2", "\n">>

LnOneTwo == <<"1", " ", "2", "\n">>

LnRow == <<"0", " ", "0", "\n">>

LnSep5 == <<"-", "-", "-", "-", "-", "\n">>

LnSep8 == <<"-", "-", "-", "-", "-", "-", "-", "-", " ", " ", "\n">>

LnDash4 == <<"-", "-", "-", "-", "\n">>

LnSepJunk == <<"-", "-", "-", "-", "-", "x", "\n">>

LnFwd == <<"A", " ", "-", ">", " ", "B", "\n">>

LnRev == <<"A", " ", "<", "-", ">", " ", "B", "\n">>

LnBack == <<"A", " ", "<", "-", " ", "B", "\n">>

\* the pools the environment draws an input stream's lines from
PoolBlocks == {LnAttachment, LnElastic, LnO2, LnRow, LnSep5}

PoolSeparators == {LnAttachment, LnO2, LnSep5, LnSep8, LnDash4, LnSepJunk}

PoolArrows == {LnExcitation, LnIonization, LnFwd, LnRev, LnBack, LnOneTwo}

Pools == {PoolBlocks, PoolSeparators, PoolArrows}

\* ------------------------------------------------ numpy.loadtxt(...).tolist()
\* A Python value whose type the code later depends on is kept with its
\* number of dimensions: ndim 0 is a float, 1 a flat list, 2 a list of lists.
None == "None"

\* a local name no value is bound to yet; text holds one-character strings, so
\* no text equals it
Unbound == <<None>>

RowTokens(lines) ==
  LET nonblank == SelectSeq(lines, LAMBDA l : split(l) # <<>>)
  IN [i \in 1..Len(nonblank) |-> split(nonblank[i])]

\* ndarray.tolist() of the squeezed n-by-c array X (loadtxt's ndmin=0): one
\* row, or one column, loses a dimension; no rows at all give the empty list
squeeze_tolist(X, n, c) ==
  IF n = 0 THEN [ndim |-> 1, v |-> <<>>]
  ELSE IF n = 1 /\ c = 1 THEN [ndim |-> 0, v |-> X[1][1]]
  ELSE IF n = 1 THEN [ndim |-> 1, v |-> X[1]]
  ELSE IF c = 1 THEN [ndim |-> 1, v |-> [i \in 1..n |-> X[i][1]]]
  ELSE [ndim |-> 2, v |-> X]

\* a loadtxt that refuses an empty input
loadtxt_rows_nonempty(toks) ==
  IF toks = <<>> THEN [ok |-> FALSE, err |-> "IOError"]
  ELSE IF \E i \in 1..Len(toks) : \E j \in 1..Len(toks[i]) : ~float(toks[i][j]).ok
  THEN [ok |-> FALSE, err |-> "ValueError"]
  ELSE IF \E i \in 1..Len(toks) : Len(toks[i]) # Len(toks[1])
  THEN [ok |-> FALSE, err |-> "ValueError"]
  ELSE [ok |-> TRUE,
        data |-> squeeze_tolist(
                   [i \in 1..Len(toks) |->
                      [j \in 1..Len(toks[i]) |-> float(toks[i][j]).v]],
                   Len(toks), Len(toks[1]))]

\* loadtxt on the rows' tokens: every token must be a float and every row
\* must have as many columns as the first
loadtxt_rows(toks) ==
  IF \E i \in 1..Len(toks) : \E j \in 1..Len(toks[i]) : ~float(toks[i][j]).ok
  THEN [ok |-> FALSE, err |-> "ValueError"]
  ELSE IF \E i \in 1..Len(toks) : Len(toks[i]) # Len(toks[1])
  THEN [ok |-> FALSE, err |-> "ValueError"]
  ELSE [ok |-> TRUE,
        data |-> squeeze_tolist(
                   [i \in 1..Len(toks) |->
                      [j \in 1..Len(toks[i]) |-> float(toks[i][j]).v]],
                   Len(toks),
                   IF toks = <<>> THEN 0 ELSE Len(toks[1]))]

\* np.loadtxt(lines).tolist(): blank lines are skipped
loadtxt_tolist(lines) == loadtxt_rows(RowTokens(lines))

\* ------------------------------------------------------------ block readers
\* _read_block once its lines are read: (target, arg, data), or loadtxt's error
block_of(tgt, a, X) ==
  IF X.ok THEN [ok |-> TRUE, target |-> tgt, arg |-> a, data |-> X.data]
  ELSE X

read_block(tgt, a, dataLines) == block_of(tgt, a, loadtxt_tolist(dataLines))

\* float(arg.split()[i]), i 0-based
token_float(toks, i) ==
  IF Len(toks) <= i THEN [ok |-> FALSE, err |-> "IndexError"]
  ELSE float(toks[i + 1])

ArgFloat(a, i) == token_float(split(a), i)

\* _read_momentum after its _read_block call returned b
momentum_dict(b, mass_ratio) ==
  IF ~mass_ratio.ok THEN mass_ratio
  ELSE [ok |-> TRUE,
        d |-> [target |-> b.target, mass_ratio |-> mass_ratio.v, data |-> b.data]]

momentum_of(b) == IF ~b.ok THEN b ELSE momentum_dict(b, ArgFloat(b.arg, 0))

read_momentum(tgt, a, dataLines) == momentum_of(read_block(tgt, a, dataLines))

\* '<->' in target.split()
has_token(toks, tok) == \E i \in 1..Len(toks) : toks[i] = tok

IsReversible(tgt) == has_token(split(tgt), <<"<", "-", ">">>)

\* _read_excitation from the threshold on, d being dict(target=lhs, ...)
excitation_args(d, reversible, threshold, weight_ratio) ==
  IF reversible
  THEN IF ~threshold.ok THEN threshold
       ELSE IF ~weight_ratio.ok THEN weight_ratio
       ELSE [ok |-> TRUE,
             d |-> d @@ [weight_ratio |-> weight_ratio.v, threshold |-> threshold.v]]
  ELSE IF ~threshold.ok THEN threshold
       ELSE [ok |-> TRUE, d |-> d @@ [threshold |-> threshold.v]]

\* lhs, rhs = [s.strip() for s in RE_ARROW.split(target)] and what follows
excitation_dict(b, parts) ==
  IF Len(parts) # 2 THEN [ok |-> FALSE, err |-> "ValueError"]
  ELSE excitation_args(
         [target |-> strip(parts[1]), product |-> strip(parts[2]), data |-> b.data],
         IsReversible(b.target), ArgFloat(b.arg, 0), ArgFloat(b.arg, 1))

excitation_of(b) == IF ~b.ok THEN b ELSE excitation_dict(b, RE_ARROW_split(b.target))

read_excitation(tgt, a, dataLines) == excitation_of(read_block(tgt, a, dataLines))

\* _read_attachment after its _read_block call returned b
attachment_dict(b, lr) ==
  IF Len(lr) = 2
  THEN [ok |-> TRUE,
        d |-> [data |-> b.data, threshold |-> 0]
              @@ [target |-> strip(lr[1]), product |-> strip(lr[2])]]
  ELSE [ok |-> TRUE,
        d |-> [data |-> b.data, threshold |-> 0] @@ [target |-> b.target]]

attachment_of(b) == IF ~b.ok THEN b ELSE attachment_dict(b, RE_ARROW_split(b.target))

read_attachment(tgt, a, dataLines) == attachment_of(read_block(tgt, a, dataLines))

\* fread(fp) once the block's lines are read
fread(reader, tgt, a, dataLines) ==
  IF reader = "_read_momentum" THEN read_momentum(tgt, a, dataLines)
  ELSE IF reader = "_read_excitation" THEN read_excitation(tgt, a, dataLines)
  ELSE read_attachment(tgt, a, dataLines)

\* a list that grows at the front
list_push_front(list, d) == <<d>> \o list

\* processes.append(d)
list_append(list, d) == Append(list, d)

\* a handler that passes over every exception
HandleAny(e) == "scan"

\* parse's try/except around the loop body: a KeyError is passed over and the
\* loop goes on, every other exception leaves parse
Handle(e) == IF e = "KeyError" THEN "scan" ELSE "failed"

\* ----------------------------------------------------------------- XMLnode
\* the number of spaces of each entry of the module's indent table, in order
IndentWidth == <<0, 1, 2, 3, 4, 5, 6, 7, 8, 10, 11, 12, 13, 14, 15, 16>>

RECURSIVE Spaces(_)
Spaces(n) == IF n = 0 THEN <<>> ELSE <<" ">> \o Spaces(n - 1)

\* indent[level]
indent(level) == Spaces(IndentWidth[level + 1])

RECURSIVE ToDigits(_)
ToDigits(n) ==
  IF n < 10 THEN <<Digits[n + 1]>> ELSE ToDigits(n \div 10) \o <<Digits[(n % 10) + 1]>>

\* repr(x) of a float holding the whole number n
repr(n) == ToDigits(n) \o <<".", "0">>

\* str(i) of an int
str(i) == ToDigits(i)

\* XMLnode.__init__: a value that is not a string is converted with repr;
\* leading whitespace is stripped either way
XMLnode(name, value, isStr) ==
  [name |-> name,
   value |-> IF isStr THEN lstrip(value) ELSE lstrip(repr(value)),
   attribs |-> <<>>,
   children |-> <<>>,
   childmap |-> <<>>]

\* The nodes of a tree are kept in a sequence and named by their index in
\* it; _children and _childmap hold such indices.

\* an addChild whose name index keeps the first child added under a name
addChild_first_wins(nodes, parent, name, value, isStr) ==
  LET c == Len(nodes) + 1
  IN Append([nodes EXCEPT ![parent].children = Append(@, c),
                          ![parent].childmap = @ @@ (name :> c)],
            XMLnode(name, value, isStr))

\* parent.addChild(name, value): the nodes after the call (the new child is
\* the last of them)
addChild(nodes, parent, name, value, isStr) ==
  LET c == Len(nodes) + 1
  IN Append([nodes EXCEPT ![parent].children = Append(@, c),
                          ![parent].childmap = (name :> c) @@ @],
            XMLnode(name, value, isStr))

\* parent.addComment(comment)
addComment(nodes, parent, text) == addChild(nodes, parent, "_comment_", text, TRUE)

\* node.child(name): self._childmap[name]
child(nodes, n, name) ==
  IF name \in DOMAIN nodes[n].childmap
  THEN [ok |-> TRUE, node |-> nodes[n].childmap[name]]
  ELSE [ok |-> FALSE, err |-> "KeyError"]

\* node[key] = value
setitem(nodes, n, k, value) ==
  [nodes EXCEPT ![n].attribs = (k :> value) @@ @]

\* A piece is one string appended to the output list s, with the node and
\* level of the call that appended it and what it is; indentation and values
\* are sequences of characters, literals and names are strings.
Piece(n, level, kind, text) ==
  [node |-> n, level |-> level, kind |-> kind, text |-> text]

write_comment(nodes, n, level) ==
  LET v0 == nodes[n].value
      v1 == IF v0 # <<>> /\ v0[1] # " " THEN <<" ">> \o v0 ELSE v0
      v2 == IF v0 # <<>> /\ v1[Len(v1)] # " " THEN v1 \o <<" ">> ELSE v1
  IN << Piece(n, level, "comment-indent", <<"\n">> \o indent(level)),
        Piece(n, level, "lit", "<!--"),
        Piece(n, level, "comment", v2),
        Piece(n, level, "lit", "-->") >>

\* write_attribs: one ' key="value"' per attribute, in the dictionary's order;
\* kept as the mapping itself, which fixes no order
write_attribs(nodes, n, level) ==
  IF DOMAIN nodes[n].attribs = {} THEN <<>>
  ELSE << Piece(n, level, "attribs", nodes[n].attribs) >>

\* the loop of write_value: one output line per line of vv
RECURSIVE write_value_lines(_, _, _)
write_value_lines(n, level, vv) ==
  LET ieol == find(vv, <<"\n">>)
  IN IF ieol >= 0
     THEN << Piece(n, level, "lit", "\n  "),
             Piece(n, level, "value-indent", indent(level)),
             Piece(n, level, "value", SubSeq(vv, 1, ieol)) >>
          \o write_value_lines(n, level, lstrip(SubSeq(vv, ieol + 2, Len(vv))))
     ELSE << Piece(n, level, "lit", "\n  "),
             Piece(n, level, "value-indent", indent(level)),
             Piece(n, level, "value", vv) >>

write_value(nodes, n, level) ==
  LET vv == lstrip(nodes[n].value)
  IN IF find(vv, <<"\n">>) >= 0
     THEN write_value_lines(n, level, vv)
     ELSE << Piece(n, level, "value", nodes[n].value) >>

\* node._write(s, level): the pieces it appends to s.  (Its first test,
\* "if not self.name", tests a bound method and never returns.)
RECURSIVE write_node(_, _, _)
RECURSIVE write_children(_, _, _, _)
write_node(nodes, n, level) ==
  LET self == nodes[n]
      open == << Piece(n, level, "indent", indent(level)),
                 Piece(n, level, "lit", "<"),
                 Piece(n, level, "name", self.name) >>
              \o write_attribs(nodes, n, level)
  IN IF self.name = "_comment_" THEN write_comment(nodes, n, level)
     ELSE IF self.value = <<>> /\ self.children = <<>>
     THEN open \o << Piece(n, level, "lit", "/>") >>
     ELSE open
          \o << Piece(n, level, "lit", ">") >>
          \o (IF self.value # <<>> THEN write_value(nodes, n, level) ELSE <<>>)
          \o write_children(nodes, n, 1, level)
          \o (IF self.children # <<>>
              THEN << Piece(n, level, "lit", "\n"),
                      Piece(n, level, "close-indent", indent(level)) >>
              ELSE <<>>)
          \o << Piece(n, level, "lit", "</"),
                Piece(n, level, "name", self.name),
                Piece(n, level, "lit", ">") >>

\* the loop over self._children, from the i-th child on
write_children(nodes, n, i, level) ==
  IF i > Len(nodes[n].children) THEN <<>>
  ELSE << Piece(n, level, "lit", "\n") >>
       \o write_node(nodes, nodes[n].children[i], level + 2)
       \o write_children(nodes, n, i + 1, level)

\* node.write(filename): the declaration, the tree from level 0, a newline
write(nodes, n) ==
  << Piece(0, 0, "lit", "<?xml version=\"1.0\"?>\n") >>
  \o write_node(nodes, n, 0)
  \o << Piece(0, 0, "lit", "\n") >>

\* ------------------------------------------------------------------- state
VARIABLES
  pool,        \* the raw lines the input stream is made of
  nread,       \* lines of the stream consumed so far (by any reader)
  eof,         \* the stream's iterator is exhausted
  pc,          \* where the program is: "scan" (parse's loop), "target", "arg",
               \* "comment", "data" (inside _read_block), "failed" (parse
               \* raised), "done" (parse returned), then main's "convert",
               \* "written", "mainfailed"; "tree" in the free tree builder
  key,         \* parse's key: the keyword of the block being read
  target,      \* _read_block's target
  arg,         \* _read_block's arg
  comment,     \* how many lines the comment section holds so far (the code
               \* joins them into a string it never reads, line 248)
  commentSep,  \* the comment section was ended by a separator line
  rows,        \* the lines of the data section read so far
  processes,   \* parse's processes
  result,      \* what parse returned, empty before it returns
  err,         \* the exception that left parse or main, None when none did
  dispatched,  \* history: the keys parse's loop dispatched, in order
  blocks,      \* history: every block a block reader finished or failed on
  last,        \* history: the line read last, by whom and to what effect
  nodes,       \* the XMLnode objects created so far; nodes[1] is the root
  elems,       \* main: the process element made for each record so far
  cur,         \* tree builder: the node the builder holds and adds under
  got,         \* tree builder: the outcome of the last child() lookup
  log,         \* history: the addChild calls of the tree builder, in order
  out          \* the pieces write() produced, empty before it runs

parserState ==
  <<pool, nread, eof, key, target, arg, comment, commentSep, rows,
    processes, result, err, dispatched, blocks, last>>

treeVars == <<nodes, elems, cur, got, log, out>>

vars ==
  <<pool, nread, eof, pc, key, target, arg, comment, commentSep, rows,
    processes, result, err, dispatched, blocks, last, nodes, elems, cur, got,
    log, out>>

\* no child() lookup made yet
NoLookup == [node |-> 0, name |-> None, r |-> [ok |-> FALSE, err |-> None]]

InitParser ==
  /\ nread = 0
  /\ eof = FALSE
  /\ key = Unbound
  /\ target = Unbound
  /\ arg = Unbound
  /\ comment = 0
  /\ commentSep = FALSE
  /\ rows = <<>>
  /\ processes = <<>>
  /\ result = <<>>
  /\ err = None
  /\ dispatched = <<>>
  /\ blocks = <<>>
  /\ last = [no |-> 0, by |-> None, line |-> <<>>, effect |-> None]

\* the stream has a next line for the iterator to return
Avail == ~eof /\ nread < MaxLines

\* the iterator's next(): one line consumed
Took(line, effect) ==
  /\ nread' = nread + 1
  /\ last' = [no |-> nread + 1, by |-> pc, line |-> line, effect |-> effect]
  /\ UNCHANGED <<pool, eof>>
  /\ UNCHANGED treeVars

\* the iterator raises StopIteration: no line left
Exhausted ==
  /\ eof' = TRUE
  /\ last' = [no |-> nread, by |-> pc, line |-> <<>>, effect |-> "eof"]
  /\ UNCHANGED <<pool, nread>>
  /\ UNCHANGED treeVars

\* an exception e reaches parse's try/except while block b is being read
Raise(e, b) ==
  /\ pc' = Handle(e)
  /\ err' = IF Handle(e) = "failed" THEN e ELSE err
  /\ blocks' = Append(blocks, b @@ [err |-> e])
  /\ key' = Unbound
  /\ target' = Unbound
  /\ arg' = Unbound
  /\ comment' = 0
  /\ commentSep' = FALSE
  /\ rows' = <<>>
  /\ UNCHANGED <<processes, result, dispatched>>

ThisBlock(dataSep) ==
  [key |-> key, target |-> target, arg |-> arg, rows |-> rows,
   commentSep |-> commentSep, dataSep |-> dataSep, at |-> pc,
   endedAt |-> nread']

\* ------------------------------------------------------------------- parse
\* one pass of parse's loop: the line is a keyword (its reader starts) or not
\* (KEYWORDS[key] raises KeyError, which the loop passes over)
ScanLine ==
  \E line \in pool :
    /\ pc = "scan"
    /\ Avail
    /\ IF strip(line) \in DOMAIN KEYWORDS
       THEN /\ Took(line, "dispatch")
            /\ key' = strip(line)
            /\ dispatched' = Append(dispatched, strip(line))
            /\ pc' = "target"
            /\ err' = err
       ELSE /\ Took(line, "skip")
            /\ pc' = Handle("KeyError")
            /\ err' = IF Handle("KeyError") = "failed" THEN "KeyError" ELSE err
            /\ UNCHANGED <<key, dispatched>>
    /\ UNCHANGED <<target, arg, comment, commentSep, rows, processes, result, blocks>>

\* parse's loop ends with the stream and parse returns processes
ScanEnd ==
  /\ pc = "scan"
  /\ Exhausted
  /\ pc' = "done"
  /\ result' = processes
  /\ UNCHANGED <<key, target, arg, comment, commentSep, rows, processes, err,
                 dispatched, blocks>>

\* _read_block: target = fp.next().strip()
ReadTarget ==
  \E line \in pool :
    /\ pc = "target"
    /\ Avail
    /\ Took(line, "target")
    /\ target' = strip(line)
    /\ pc' = IF has_arg(KEYWORDS[key]) THEN "arg" ELSE "comment"
    /\ UNCHANGED <<key, arg, comment, commentSep, rows, processes, result, err,
                   dispatched, blocks>>

TargetEnd ==
  /\ pc = "target"
  /\ Exhausted
  /\ Raise("StopIteration", ThisBlock(FALSE))

\* _read_block: arg = fp.next().strip()
ReadArg ==
  \E line \in pool :
    /\ pc = "arg"
    /\ Avail
    /\ Took(line, "arg")
    /\ arg' = strip(line)
    /\ pc' = "comment"
    /\ UNCHANGED <<key, target, comment, commentSep, rows, processes, result, err,
                   dispatched, blocks>>

ArgEnd ==
  /\ pc = "arg"
  /\ Exhausted
  /\ Raise("StopIteration", ThisBlock(FALSE))

\* _read_until_sep, first call: one line of the comment section
ReadComment ==
  \E line \in pool :
    /\ pc = "comment"
    /\ Avail
    /\ IF RE_SEP_match(strip(line))
       THEN /\ Took(line, "sep")
            /\ pc' = "data"
            /\ commentSep' = TRUE
            /\ UNCHANGED comment
       ELSE /\ Took(line, "content")
            /\ comment' = comment + 1
            /\ UNCHANGED <<pc, commentSep>>
    /\ UNCHANGED <<key, target, arg, rows, processes, result, err, dispatched, blocks>>

\* the stream ends inside the comment section: the for loop just ends
CommentEnd ==
  /\ pc = "comment"
  /\ Exhausted
  /\ pc' = "data"
  /\ UNCHANGED <<key, target, arg, comment, commentSep, rows, processes, result,
                 err, dispatched, blocks>>

\* the data section is complete: loadtxt, the reader's own decoding, then
\* parse's d['kind'] = key and processes.append(d)
Returned(r, b) ==
  IF r.ok
  THEN /\ processes' = list_append(processes, r.d @@ [kind |-> key])
       /\ blocks' = Append(blocks, b @@ [err |-> None])
       /\ pc' = "scan"
       /\ key' = Unbound
       /\ target' = Unbound
       /\ arg' = Unbound
       /\ comment' = 0
       /\ commentSep' = FALSE
       /\ rows' = <<>>
       /\ UNCHANGED <<result, err, dispatched>>
  ELSE Raise(r.err, b)

Finish(dataSep) == Returned(fread(KEYWORDS[key], target, arg, rows), ThisBlock(dataSep))

\* _read_until_sep, second call: one line of the data section
ReadData ==
  \E line \in pool :
    /\ pc = "data"
    /\ Avail
    /\ IF RE_SEP_match(strip(line))
       THEN /\ Took(line, "sep")
            /\ Finish(TRUE)
       ELSE /\ Took(line, "content")
            /\ rows' = Append(rows, strip(line))
            /\ UNCHANGED <<pc, key, target, arg, comment, commentSep, processes,
                           result, err, dispatched, blocks>>

\* the stream ends inside the data section
DataEnd ==
  /\ pc = "data"
  /\ Exhausted
  /\ Finish(FALSE)

\* -------------------------------------------------------------------- main
\* '%10.6E' % x for a float holding the whole number n < 10^7
FormatE(n) ==
  LET ds == ToDigits(n)
      frac == [i \in 1..6 |-> IF i + 1 <= Len(ds) THEN ds[i + 1] ELSE "0"]
  IN <<ds[1], ".">> \o frac \o <<"E", "+", "0", Digits[Len(ds)]>>

RECURSIVE DataRows(_, _)
DataRows(v, i) ==
  IF i > Len(v) THEN <<>>
  ELSE FormatE(v[i][1]) \o <<" ">> \o FormatE(v[i][2]) \o <<" ">> \o <<"\n">>
       \o DataRows(v, i + 1)

\* main's loop over p['data']: j[0] and j[1] of every element j
DataText(data) ==
  IF data.ndim = 2 THEN [ok |-> TRUE, text |-> DataRows(data.v, 1)]
  ELSE IF data.ndim = 1 /\ data.v = <<>> THEN [ok |-> TRUE, text |-> <<>>]
  ELSE [ok |-> FALSE, err |-> "TypeError"]

\* p[k]
getitem(p, k) ==
  IF k \in DOMAIN p THEN [ok |-> TRUE, v |-> p[k]]
  ELSE [ok |-> FALSE, err |-> "KeyError"]

\* one pass of main's loop, for record p at index i (0-based): the nodes
\* after it, and the exception that ended it early, if one did
convert(ns, i, p) ==
  LET r == Len(ns) + 1
      n1 == addChild(ns, 1, "process", <<>>, TRUE)
      n2 == setitem(setitem(n1, r, "id", str(i)), r, "type", p.kind)
      n3 == addChild(n2, r, "reactants", p.target, TRUE)
      product == getitem(p, "product")
      withProduct ==
        addChild(addChild(n3, r, "products", product.v, TRUE),
                 r, "threshold", p.threshold, FALSE)
      n4 == IF find(p.kind, kwEXCITATION) # -1
            THEN IF ~product.ok THEN [ok |-> FALSE, err |-> product.err, nodes |-> n3]
                 ELSE IF "weight_ratio" \in DOMAIN p
                 THEN [ok |-> TRUE,
                       nodes |-> addChild(setitem(withProduct, r, "reversible",
                                                  <<"y", "e", "s">>),
                                          r, "weight_ratio", p.weight_ratio, FALSE)]
                 ELSE [ok |-> TRUE, nodes |-> withProduct]
            ELSE IF find(p.kind, kwIONIZATION) # -1 \/ find(p.kind, kwATTACHMENT) # -1
            THEN IF ~product.ok THEN [ok |-> FALSE, err |-> product.err, nodes |-> n3]
                 ELSE [ok |-> TRUE, nodes |-> withProduct]
            ELSE [ok |-> TRUE,
                  nodes |-> addChild(addChild(n3, r, "products", p.target, TRUE),
                                     r, "mass_ratio", p.mass_ratio, FALSE)]
      data == DataText(p.data)
  IN IF ~n4.ok THEN n4
     ELSE IF ~data.ok THEN [ok |-> FALSE, err |-> data.err, nodes |-> n4.nodes]
     ELSE [ok |-> TRUE, nodes |-> addChild(n4.nodes, r, "data", data.text, TRUE)]

\* main after parse has returned: x = XMLnode("ctml")
MainStart ==
  /\ pc = "done"
  /\ nodes' = <<XMLnode("ctml", <<>>, TRUE)>>
  /\ pc' = "convert"
  /\ UNCHANGED <<elems, cur, got, log, out>>
  /\ UNCHANGED parserState

\* one pass of main's loop
MainConvert ==
  /\ pc = "convert"
  /\ Len(elems) < Len(processes)
  /\ LET i == Len(elems)
         c == convert(nodes, i, processes[i + 1])
     IN /\ nodes' = c.nodes
        /\ elems' = Append(elems, Len(nodes) + 1)
        /\ pc' = IF c.ok THEN "convert" ELSE "mainfailed"
        /\ err' = IF c.ok THEN err ELSE c.err
  /\ UNCHANGED <<cur, got, log, out>>
  /\ UNCHANGED <<pool, nread, eof, key, target, arg, comment, commentSep, rows,
                 processes, result, dispatched, blocks, last>>

\* x.write("lxcat.xml") after the loop
MainWrite ==
  /\ pc = "convert"
  /\ Len(elems) = Len(processes)
  /\ out' = write(nodes, 1)
  /\ pc' = "written"
  /\ UNCHANGED <<nodes, elems, cur, got, log>>
  /\ UNCHANGED parserState

Init ==
  /\ pool \in Pools
  /\ pc = "scan"
  /\ InitParser
  /\ nodes = <<>>
  /\ elems = <<>>
  /\ cur = 0
  /\ got = NoLookup
  /\ log = <<>>
  /\ out = <<>>

Next ==
  \/ ScanLine
  \/ ScanEnd
  \/ ReadTarget
  \/ TargetEnd
  \/ ReadArg
  \/ ArgEnd
  \/ ReadComment
  \/ CommentEnd
  \/ ReadData
  \/ DataEnd
  \/ MainStart
  \/ MainConvert
  \/ MainWrite

Spec == Init /\ [][Next]_vars

\* ------------------------------------------------------- the tree builder
\* A program that builds a tree the way main does: it holds one node, adds
\* children and comments under it, may go on with a child it has just added,
\* looks children up by name, and writes the tree once.
TagNames == {"a", "b"}

CommentText == <<" ", "h", "i">>

TAddChild ==
  \E name \in TagNames, descend \in BOOLEAN :
    /\ pc = "tree"
    /\ Len(nodes) < MaxNodes
    /\ nodes' = addChild(nodes, cur, name, <<>>, TRUE)
    /\ log' = Append(log, [parent |-> cur, name |-> name, node |-> Len(nodes) + 1])
    /\ cur' = IF descend THEN Len(nodes) + 1 ELSE cur
    /\ got' = NoLookup
    /\ UNCHANGED <<elems, out, pc, err>>
    /\ UNCHANGED <<pool, nread, eof, key, target, arg, comment, commentSep, rows,
                   processes, result, dispatched, blocks, last>>

TAddComment ==
  /\ pc = "tree"
  /\ Len(nodes) < MaxNodes
  /\ nodes' = addComment(nodes, cur, CommentText)
  /\ log' = Append(log, [parent |-> cur, name |-> "_comment_", node |-> Len(nodes) + 1])
  /\ got' = NoLookup
  /\ UNCHANGED <<elems, cur, out, pc, err>>
  /\ UNCHANGED <<pool, nread, eof, key, target, arg, comment, commentSep, rows,
                 processes, result, dispatched, blocks, last>>

TChild ==
  \E name \in TagNames \cup {"_comment_"} :
    /\ pc = "tree"
    /\ got' = [node |-> cur, name |-> name, r |-> child(nodes, cur, name)]
    /\ UNCHANGED <<nodes, elems, cur, log, out, pc, err>>
    /\ UNCHANGED <<pool, nread, eof, key, target, arg, comment, commentSep, rows,
                   processes, result, dispatched, blocks, last>>

TWrite ==
  /\ pc = "tree"
  /\ out' = write(nodes, 1)
  /\ pc' = "treewritten"
  /\ UNCHANGED <<nodes, elems, cur, got, log, err>>
  /\ UNCHANGED <<pool, nread, eof, key, target, arg, comment, commentSep, rows,
                 processes, result, dispatched, blocks, last>>

InitTree ==
  /\ pool = {}
  /\ pc = "tree"
  /\ InitParser
  /\ nodes = <<XMLnode("ctml", <<>>, TRUE)>>
  /\ elems = <<>>
  /\ cur = 1
  /\ got = NoLookup
  /\ log = <<>>
  /\ out = <<>>

NextTree ==
  \/ TAddChild
  \/ TAddComment
  \/ TChild
  \/ TWrite

SpecTree == InitTree /\ [][NextTree]_vars

\* ------------------------------------------------------------------ claims
ParseReturned == pc \in {"done", "convert", "written", "mainfailed"}

InBlock == pc \in {"target", "arg", "comment", "data"}

AllKeywords ==
  {kwMOMENTUM, kwELASTIC, kwEFFECTIVE, kwEXCITATION, kwIONIZATION, kwATTACHMENT}

IsPrefix(s, u) == Len(s) <= Len(u) /\ SubSeq(u, 1, Len(s)) = s

\* C1: when parse returns, the returned list has one record per keyword line
\* the scanning loop dispatched, in that order: the i-th record's kind is the
\* i-th dispatched keyword and the record was read from the i-th block (its
\* target begins that block's target line); none is reordered, duplicated or
\* dropped.
C1_RecordsInDispatchOrder ==
  ParseReturned =>
    /\ Len(result) = Len(dispatched)
    /\ Len(blocks) = Len(dispatched)
    /\ \A i \in 1..Len(result) :
         /\ result[i].kind = dispatched[i]
         /\ blocks[i].key = dispatched[i]
         /\ IsPrefix(result[i].target, blocks[i].target)
         /\ \A j \in 1..Len(result) : i < j => blocks[i].endedAt < blocks[j].endedAt

\* two records of different kinds were returned
C1_Witness ==
  /\ ParseReturned
  /\ Len(result) = 2
  /\ result[1].kind = kwATTACHMENT
  /\ result[2].kind = kwELASTIC

\* C2: a block reader owns the stream while it runs.  A record is begun only
\* by the scanning loop, on a keyword line; a line read as target, argument or
\* comment line (a keyword line too) begins and adds no record; a record is
\* added only as the block reader returns to the scanning loop; a line of
\* five dashes read in the data section ends the block reader, and the
\* scanning loop reads the line right after it.
C2_BlockOwnsStream ==
  [][ /\ (dispatched' # dispatched =>
            /\ pc = "scan"
            /\ strip(last'.line) \in AllKeywords
            /\ dispatched' = Append(dispatched, strip(last'.line)))
      /\ (pc \in {"target", "arg", "comment"} =>
            /\ processes' = processes
            /\ dispatched' = dispatched
            /\ pc' \in {"arg", "comment", "data", "failed"})
      /\ (processes' # processes =>
            /\ pc = "data"
            /\ pc' = "scan"
            /\ Len(processes') = Len(processes) + 1)
      /\ (pc = "data" /\ nread' = nread + 1 /\ last'.line = LnSep5 =>
            /\ pc' \in {"scan", "failed"}
            /\ blocks'[Len(blocks')].endedAt = last'.no)
      /\ (pc = "scan" /\ nread' = nread + 1 =>
            /\ last'.by = "scan"
            /\ last'.no = nread + 1
            /\ (blocks # <<>> /\ last.by = "data" =>
                  last'.no = blocks[Len(blocks)].endedAt + 1))
    ]_vars

\* a keyword line was consumed as a target line, the block's data section was
\* closed by a separator, and the scanning loop has read the next line
C2_Witness ==
  /\ pc = "scan"
  /\ last.by = "scan"
  /\ Len(blocks) = 1
  /\ blocks[1].target = kwATTACHMENT
  /\ blocks[1].dataSep
  /\ Len(processes) = 1
  /\ Len(dispatched) = 1
  /\ last.no = blocks[1].endedAt + 1

\* C3: no per-record recovery.  Once a block reader has failed (no line left
\* for the target or argument line, or the block rejected as malformed), parse
\* has failed with that error: it returns no list, not even the records of
\* the earlier blocks, and reads no further block.
C3_FailureAbortsParse ==
  \A i \in 1..Len(blocks) :
    blocks[i].err # None =>
      /\ pc = "failed"
      /\ i = Len(blocks)
      /\ err = blocks[i].err
      /\ result = <<>>
      /\ Len(dispatched) = Len(blocks)

\* a block failed after an earlier block had produced a record
C3_Witness ==
  /\ pc = "failed"
  /\ Len(processes) = 1
  /\ Len(blocks) = 2
  /\ blocks[2].err = "ValueError"
  /\ blocks[2].rows # <<>>

\* the stripped text of the pool's lines
TxRow == <<"0", " ", "0">>

TxFwd == <<"A", " ", "-", ">", " ", "B">>

TxRev == <<"A", " ", "<", "-", ">", " ", "B">>

TxBack == <<"A", " ", "<", "-", " ", "B">>

TxArgs == <<"1", " ", "2">>

\* C4 (as claimed): a block whose data section holds n >= 0 two-column lines
\* "0 0" yields data = a sequence of exactly n pairs (0, 0), in order.
C4_DataIsSequenceOfPairs ==
  \A i \in 1..Len(processes) :
    (\A j \in 1..Len(blocks[i].rows) : blocks[i].rows[j] = TxRow) =>
      /\ Len(blocks[i].rows) = 0 \/ processes[i].data.ndim = 2
      /\ Len(processes[i].data.v) = Len(blocks[i].rows)
      /\ \A j \in 1..Len(blocks[i].rows) : processes[i].data.v[j] = <<0, 0>>

\* C5 (as claimed): an EXCITATION or IONIZATION block whose target line holds
\* one of the arrows ->, <-> and <- (and whose argument line and data section
\* are well-formed) yields a record with target "A" and product "B".
C5_ThreeArrowForms ==
  \A i \in 1..Len(blocks) :
    ( /\ blocks[i].key \in {kwEXCITATION, kwIONIZATION}
      /\ blocks[i].at = "data"
      /\ blocks[i].target \in {TxFwd, TxRev, TxBack}
      /\ blocks[i].arg = TxArgs
      /\ blocks[i].rows = <<>> ) =>
      /\ i <= Len(processes)
      /\ processes[i].target = <<"A">>
      /\ processes[i].product = <<"B">>

\* C5 (amended): the same for the two arrows -> and <-> only; a target line
\* whose only arrow-like token is <- is not split, and the block reader fails
\* with ValueError.
C5_TwoArrowForms ==
  \A i \in 1..Len(blocks) :
    ( /\ blocks[i].key \in {kwEXCITATION, kwIONIZATION}
      /\ blocks[i].at = "data"
      /\ blocks[i].arg = TxArgs
      /\ blocks[i].rows = <<>> ) =>
      /\ blocks[i].target \in {TxFwd, TxRev} =>
           /\ i <= Len(processes)
           /\ processes[i].kind = blocks[i].key
           /\ processes[i].target = <<"A">>
           /\ processes[i].product = <<"B">>
      /\ blocks[i].target = TxBack =>
           /\ blocks[i].err = "ValueError"
           /\ Len(processes) < i

\* an IONIZATION block with the two-way arrow produced its record
C5_Witness ==
  /\ Len(processes) = 1
  /\ processes[1].kind = kwIONIZATION
  /\ blocks[1].target = TxRev
  /\ processes[1].product = <<"B">>

\* s consists of five or more dashes and nothing else
OnlyDashes(s) == Len(s) >= 5 /\ \A i \in 1..Len(s) : s[i] = "-"

\* C6 (as claimed): a line read in a comment or data section ends the section
\* if and only if its trimmed content is five or more dashes and nothing else.
C6_SeparatorIffOnlyDashes ==
  (last.by \in {"comment", "data"} /\ last.effect \in {"sep", "content"}) =>
    (last.effect = "sep" <=> OnlyDashes(strip(last.line)))

\* the block b ended because the stream ended inside its comment or data
\* section
EndedInSection(b) == b.at = "data" /\ ~b.dataSep

\* C7 (as claimed): if the stream ends inside a comment or data section, the
\* section reader does not raise, the block has consumed every line, and parse
\* returns normally with that block's record as its last record.
C7_UnterminatedSectionReturns ==
  \A i \in 1..Len(blocks) :
    EndedInSection(blocks[i]) =>
      /\ blocks[i].err = None
      /\ eof /\ blocks[i].endedAt = nread
      /\ pc # "failed"
      /\ Len(processes) = i
      /\ processes[i].kind = blocks[i].key

\* C7 (amended): if the stream ends inside a comment or data section, the
\* section reader does not raise and the block has consumed every line; the
\* block reader then decodes what it read as if a separator had ended the
\* section: when that succeeds parse returns normally with the block's record
\* as its last record, otherwise parse fails with the decoding's error
\* (ValueError or IndexError, never an end-of-input error).  An ATTACHMENT
\* block with no data line always succeeds.
C7_UnterminatedSectionDecoded ==
  \A i \in 1..Len(blocks) :
    EndedInSection(blocks[i]) =>
      /\ eof /\ blocks[i].endedAt = nread
      /\ i = Len(blocks)
      /\ blocks[i].err \in {None, "ValueError", "IndexError"}
      /\ (blocks[i].key = kwATTACHMENT /\ blocks[i].rows = <<>>) => blocks[i].err = None
      /\ blocks[i].err = None =>
           /\ pc # "failed"
           /\ pc # "scan" => ParseReturned
           /\ Len(processes) = i
           /\ processes[i].kind = blocks[i].key
           /\ ParseReturned => result = processes
      /\ blocks[i].err # None => pc = "failed" /\ err = blocks[i].err

\* parse returned after the stream ended inside a data section that held two
\* rows
C7_Witness ==
  /\ ParseReturned
  /\ Len(result) = 1
  /\ EndedInSection(blocks[1])
  /\ blocks[1].commentSep
  /\ Len(blocks[1].rows) = 2

\* C9 (as claimed): when main renders an ATTACHMENT record that has no product
\* key, its process element gets a products child holding the record's
\* target, and main goes on.
C9_AttachmentProductsIsTarget ==
  \A i \in 1..Len(elems) :
    (processes[i].kind = kwATTACHMENT /\ "product" \notin DOMAIN processes[i]) =>
      /\ pc # "mainfailed"
      /\ child(nodes, elems[i], "products").ok
      /\ nodes[child(nodes, elems[i], "products").node].value = processes[i].target

\* ---- XMLnode
\* the nodes added under parent p, in the order of the calls that added them
AddedUnder(p) ==
  LET calls == SelectSeq(log, LAMBDA e : e.parent = p)
  IN [i \in 1..Len(calls) |-> calls[i].node]

\* the positions in p's child sequence that carry the name
Carrying(p, name) ==
  {i \in 1..Len(nodes[p].children) : nodes[nodes[p].children[i]].name = name}

LastOf(S) == CHOOSE i \in S : \A j \in S : j <= i

\* C8: after any sequence of addChild and addComment calls, each node's child
\* sequence holds every child added under it, in the order of the calls, and
\* child(name) returns the last child of that sequence carrying the name, or
\* fails with KeyError (a LookupError) when no child was added under the name.
C8_ChildrenKeptLastNameWins ==
  pc = "tree" =>
    /\ \A p \in 1..Len(nodes) : nodes[p].children = AddedUnder(p)
    /\ Len(nodes) = Len(log) + 1
    /\ got.node # 0 =>
         IF Carrying(got.node, got.name) = {}
         THEN ~got.r.ok /\ got.r.err = "KeyError"
         ELSE /\ got.r.ok
              /\ got.r.node =
                   nodes[got.node].children[LastOf(Carrying(got.node, got.name))]

\* a lookup by a name two children of the node carry, with a comment among
\* the node's children
C8_Witness ==
  /\ pc = "tree"
  /\ got.node # 0
  /\ got.r.ok
  /\ got.name \in TagNames
  /\ Cardinality(Carrying(got.node, got.name)) >= 2
  /\ Carrying(got.node, "_comment_") # {}

\* ---- serialization
\* the node a node was added under
ParentOf(n) == log[n - 1].parent

RECURSIVE Depth(_)
Depth(n) == IF n = 1 THEN 0 ELSE 1 + Depth(ParentOf(n))

IsElement(n) == nodes[n].name # "_comment_"

\* the opening-tag indentation written for element n
OpeningIndent(n) ==
  LET i == CHOOSE j \in 1..Len(out) : out[j].node = n /\ out[j].kind = "indent"
  IN out[i].text

\* C10: in the written document an element at depth d is rendered at level
\* 2*d, the root has no indentation, and every child element's opening tag is
\* indented by exactly two more spaces than its parent's.
C10_TwoSpacesPerDepth ==
  pc = "treewritten" =>
    /\ \A j \in 1..Len(out) :
         out[j].kind = "indent" => out[j].level = 2 * Depth(out[j].node)
    /\ OpeningIndent(1) = <<>>
    /\ \A n \in 2..Len(nodes) :
         IsElement(n) =>
           Len(OpeningIndent(n)) = Len(OpeningIndent(ParentOf(n))) + 2

====
